---- MODULE Spec2Model ----
(***************************************************************************)
(* Timeline reconstruction of 2019-12-22-cherrytree-to-org/t.py:           *)
(* parse_nodes flattens the CherryTree element tree, get_documents_by_time *)
(* sorts the (time, index) events and scans them with                      *)
(* no_consecutive_duplicates, and commit_documents_by_time renders, writes,*)
(* stages and commits one document per yielded Entry.                      *)
(*                                                                         *)
(* Conventions.  Node indices are 1-based here (enumerate() is 0-based);   *)
(* the order of the indices is the same.  A datetime is modelled by the    *)
(* integer timestamp it was built from (datetime.fromtimestamp is taken    *)
(* as order preserving), None by 0.  A string is modelled by a line record *)
(* [kind, level, name]: a header line carries the level and the name, a    *)
(* body line the name of the node it was read from, NoText is "".  Node    *)
(* names are the node's path in the element tree, so they are unique.      *)
(***************************************************************************)
EXTENDS Integers, Sequences, FiniteSets, TLC

\* ------------------------------------------------------------------ bounds
MaxNodes == 2
MaxTime == 1

\* ------------------------------------------------------------- input trees
\* A timestamp attribute is Absent (node.get returns None), 0 or 1..MaxTime;
\* datetime.now() of render_nodes is later than every timestamp of the file.
None == 0
Absent == -1
Now == MaxTime + 1
RawTimes == {Absent} \cup (0..MaxTime)
NoText == [kind |-> "empty", level |-> 0, name |-> <<>>]

Attrs == [ts_creation : RawTimes, ts_lastsave : RawTimes, rich_text : BOOLEAN]

RECURSIVE Shapes(_)
\* the shapes of a sequence of sibling elements with n <node> elements in
\* total; the shape of an element is the sequence of its children's shapes
Shapes(n) ==
    IF n = 0 THEN {<<>>}
    ELSE UNION {{<<t>> \o f : t \in Shapes(j - 1), f \in Shapes(n - j)} : j \in 1..n}

RECURSIVE Size(_)
\* the number of <node> elements of a sequence of siblings
Size(shape) == IF shape = <<>> THEN 0 ELSE 1 + Size(Head(shape)) + Size(Tail(shape))

RECURSIVE Element(_, _, _, _)
RECURSIVE Siblings(_, _, _, _, _)
\* the <node> element of the given shape at path; its attributes and those of
\* its descendants are a[off], a[off + 1], ...
Element(shape, path, a, off) ==
    [name |-> path, ts_creation |-> a[off].ts_creation,
     ts_lastsave |-> a[off].ts_lastsave, rich_text |-> a[off].rich_text,
     kids |-> Siblings(shape, path, 1, a, off + 1)]

Siblings(shape, path, idx, a, off) ==
    IF shape = <<>> THEN <<>>
    ELSE <<Element(Head(shape), path \o <<idx>>, a, off)>>
         \o Siblings(Tail(shape), path, idx + 1, a, off + 1 + Size(Head(shape)))

\* ------------------------------------------------------------- parse_nodes
\* float(None) raises TypeError
parse_date_raises(timestamp) == timestamp = Absent

parse_date(timestamp) == IF timestamp = 0 THEN None ELSE timestamp

\* Python's  a or b  on Optional[datetime]
Or(a, b) == IF a # None THEN a ELSE b

Header(level, name) == [kind |-> "header", level |-> level, name |-> name]

Text(node) ==
    IF node.rich_text THEN [kind |-> "text", level |-> 0, name |-> node.name]
    ELSE NoText

RECURSIVE render_node_post(_, _, _, _)
RECURSIVE render_children_post(_, _, _, _)
render_node_post(node, level, default_created, default_modified) ==
    LET created == Or(parse_date(node.ts_creation), default_created)
        modified == Or(parse_date(node.ts_lastsave), default_modified)
    IN  render_children_post(node.kids, level + 1, created, modified)
        \o <<[name |-> node.name, header |-> Header(level, node.name),
              text |-> Text(node), created |-> created, modified |-> modified]>>

render_children_post(kids, level, created, modified) ==
    IF kids = <<>> THEN <<>>
    ELSE render_node_post(Head(kids), level, created, modified)
         \o render_children_post(Tail(kids), level, created, modified)

RECURSIVE render_node(_, _, _, _)
RECURSIVE render_children(_, _, _, _)
render_node(node, level, default_created, default_modified) ==
    LET created == Or(parse_date(node.ts_creation), default_created)
        modified == Or(parse_date(node.ts_lastsave), default_modified)
    IN  <<[name |-> node.name, header |-> Header(level, node.name),
           text |-> Text(node), created |-> created, modified |-> modified]>>
        \o render_children(node.kids, level + 1, created, modified)

render_children(kids, level, created, modified) ==
    IF kids = <<>> THEN <<>>
    ELSE render_node(Head(kids), level, created, modified)
         \o render_children(Tail(kids), level, created, modified)

render_nodes(root) == render_children(root, 1, Now, Now)

RECURSIVE render_raises(_)
\* some element reached by the traversal makes parse_date raise
render_raises(kids) ==
    \E p \in 1..Len(kids) :
        \/ parse_date_raises(kids[p].ts_creation)
        \/ parse_date_raises(kids[p].ts_lastsave)
        \/ render_raises(kids[p].kids)

parse_nodes(root) == render_nodes(root)

\* --------------------------------------------------- get_documents_by_time
TupleLEDesc(a, b) == a[1] < b[1] \/ (a[1] = b[1] /\ a[2] >= b[2])

\* tuple comparison of (datetime, int)
TupleLE(a, b) == a[1] < b[1] \/ (a[1] = b[1] /\ a[2] <= b[2])

RECURSIVE events_shifted(_, _)
events_shifted(ns, i) ==
    IF i > Len(ns) THEN <<>>
    ELSE <<<<ns[i].created, i + 1>>, <<ns[i].modified, i + 1>>>> \o events_shifted(ns, i + 1)

RECURSIVE events(_, _)
\* chain.from_iterable(((n.created, i), (n.modified, i)) for i, n in ...)
events(ns, i) ==
    IF i > Len(ns) THEN <<>>
    ELSE <<<<ns[i].created, i>>, <<ns[i].modified, i>>>> \o events(ns, i + 1)

RECURSIVE insert(_, _)
insert(x, s) ==
    IF s = <<>> THEN <<x>>
    ELSE IF TupleLE(s[1], x) THEN <<s[1]>> \o insert(x, Tail(s))
    ELSE <<x>> \o s

RECURSIVE insertion_sort(_, _)
insertion_sort(s, acc) ==
    IF s = <<>> THEN acc ELSE insertion_sort(Tail(s), insert(Head(s), acc))

unsorted(s) == s

sorted(s) == insertion_sort(s, <<>>)

\* Counter: a dict whose missing keys read as 0
EmptyCounter == [x \in {} |-> 0]

CounterGet(c, key) == IF key \in DOMAIN c THEN c[key] ELSE 0

CounterIncReset(c, key) == [x \in {key} |-> CounterGet(c, key) + 1]

CounterInc(c, key) ==
    [x \in DOMAIN c \cup {key} |-> IF x = key THEN CounterGet(c, key) + 1 ELSE c[x]]

Min(S) == CHOOSE x \in S : \A y \in S : x <= y

RECURSIVE sorted_keys(_)
sorted_keys(S) == IF S = {} THEN <<>> ELSE <<Min(S)>> \o sorted_keys(S \ {Min(S)})

\* assert times_seen
document_raises(sn) == \E node_id \in DOMAIN sn : sn[node_id] = 0

RECURSIVE document_lines(_, _, _)
document_lines(ns, sn, keys) ==
    IF keys = <<>> THEN <<>>
    ELSE LET node_id == Head(keys)
             body == IF sn[node_id] = 2 /\ ns[node_id].text # NoText
                     THEN <<ns[node_id].text>> ELSE <<>>
         IN  <<ns[node_id].header>> \o body \o document_lines(ns, sn, Tail(keys))

document(ns, sn) == document_lines(ns, sn, sorted_keys(DOMAIN sn))

description(counts, node_id) ==
    IF CounterGet(counts, node_id) = 2 THEN "" ELSE "section: "

\* counts is the Counter object itself; the log keeps its value at the yield
Entry(ns, t, node_id, counts) ==
    [time |-> t, node |-> ns[node_id], node_id |-> node_id,
     description |-> description(counts, node_id), counts |-> counts]

\* Entry.text of an entry yielded earlier, materialized in the current state:
\* document(counts) reads the Counter object the generator keeps updating
entry_text(ns, live) == document(ns, live)

yield_always(node_id, prev_id) == TRUE

should_yield(node_id, prev_id) == node_id # prev_id

\* ------------------------------------------------ commit_documents_by_time
strftime(t) == <<t, "-0500">>

message(entry) == <<entry.description, entry.node.name>>

\* ------------------------------------------------------------------- state
VARIABLES tree, nodes, times, pc, seen, last_t, last_id, k, final,
          entries, file, index, commits

vars == <<tree, nodes, times, pc, seen, last_t, last_id, k, final,
          entries, file, index, commits>>

Init ==
    /\ \E n \in 0..MaxNodes : \E shape \in Shapes(n) : \E a \in [1..n -> Attrs] :
           tree = Siblings(shape, <<>>, 1, a, 1)
    /\ nodes = <<>>
    /\ times = <<>>
    /\ pc = "start"
    /\ seen = EmptyCounter
    /\ last_t = None
    /\ last_id = None
    /\ k = 1
    /\ final = FALSE
    /\ entries = <<>>
    /\ file = <<>>
    /\ index = <<>>
    /\ commits = <<>>

\* first next() on the generator: lines 124-132
Parse ==
    /\ pc = "start"
    /\ IF render_raises(tree)
       THEN /\ pc' = "error"
            /\ UNCHANGED <<nodes, times>>
       ELSE /\ nodes' = parse_nodes(tree)
            /\ times' = sorted(events(parse_nodes(tree), 1))
            /\ pc' = "begin"
    /\ UNCHANGED <<tree, seen, last_t, last_id, k, final, entries, file, index, commits>>

\* lines 145-149 on an empty event list: next() raises StopIteration inside
\* the generator, a RuntimeError under PEP 479
BeginEmptyError ==
    /\ pc = "begin"
    /\ times = <<>>
    /\ pc' = "error"
    /\ UNCHANGED <<tree, nodes, times, seen, last_t, last_id, k, final,
                   entries, file, index, commits>>

\* the same without PEP 479 (Python 3.6): the StopIteration ends the iteration
BeginEmptyStop ==
    /\ pc = "begin"
    /\ times = <<>>
    /\ pc' = "done"
    /\ UNCHANGED <<tree, nodes, times, seen, last_t, last_id, k, final,
                   entries, file, index, commits>>

\* lines 145-149; the for loop of line 150 then starts over the list `times`
Begin ==
    /\ pc = "begin"
    /\ times # <<>>
    /\ last_t' = times[1][1]
    /\ last_id' = times[1][2]
    /\ seen' = CounterInc(EmptyCounter, times[1][2])
    /\ k' = 1
    /\ pc' = "scan"
    /\ UNCHANGED <<tree, nodes, times, final, entries, file, index, commits>>

\* lines 150-154, the event continues the run; last_t is left as it was
ScanSameKeepFirst ==
    /\ pc = "scan"
    /\ k <= Len(times)
    /\ ~should_yield(times[k][2], last_id)
    /\ seen' = CounterInc(seen, times[k][2])
    /\ last_id' = times[k][2]
    /\ k' = k + 1
    /\ UNCHANGED <<tree, nodes, times, pc, final, entries, file, index, commits, last_t>>

\* lines 150-154, the event continues the run
ScanSame ==
    /\ pc = "scan"
    /\ k <= Len(times)
    /\ ~should_yield(times[k][2], last_id)
    /\ seen' = CounterInc(seen, times[k][2])
    /\ last_t' = times[k][1]
    /\ last_id' = times[k][2]
    /\ k' = k + 1
    /\ UNCHANGED <<tree, nodes, times, pc, final, entries, file, index, commits>>

\* lines 150-153 and 157-164, the event starts a run: the previous run is
\* yielded and the Entry is built from the Counter as it is now
ScanYield ==
    /\ pc = "scan"
    /\ k <= Len(times)
    /\ should_yield(times[k][2], last_id)
    /\ seen' = CounterInc(seen, times[k][2])
    /\ entries' = Append(entries,
                         Entry(nodes, last_t, last_id, CounterInc(seen, times[k][2])))
    /\ pc' = "write"
    /\ UNCHANGED <<tree, nodes, times, last_t, last_id, k, final, file, index, commits>>

\* the generator returns without the yield of line 155
FinalYieldSkipped ==
    /\ pc = "scan"
    /\ k > Len(times)
    /\ pc' = "done"
    /\ UNCHANGED <<tree, nodes, times, seen, last_t, last_id, k, final,
                   entries, file, index, commits>>

\* line 155 and 157-164
FinalYield ==
    /\ pc = "scan"
    /\ k > Len(times)
    /\ entries' = Append(entries, Entry(nodes, last_t, last_id, seen))
    /\ final' = TRUE
    /\ pc' = "write"
    /\ UNCHANGED <<tree, nodes, times, seen, last_t, last_id, k, file, index, commits>>

\* line 170: "".join(entry.text) runs document(counts) on the live Counter
Write ==
    /\ pc = "write"
    /\ IF document_raises(seen)
       THEN /\ pc' = "error"
            /\ UNCHANGED file
       ELSE /\ file' = document(nodes, seen)
            /\ pc' = "stage"
    /\ UNCHANGED <<tree, nodes, times, seen, last_t, last_id, k, final,
                   entries, index, commits>>

\* the file is not added to the index
StageSkipped ==
    /\ pc = "stage"
    /\ pc' = "commit"
    /\ UNCHANGED <<tree, nodes, times, seen, last_t, last_id, k, final,
                   entries, file, index, commits>>

\* line 171
Stage ==
    /\ pc = "stage"
    /\ index' = file
    /\ pc' = "commit"
    /\ UNCHANGED <<tree, nodes, times, seen, last_t, last_id, k, final,
                   entries, file, commits>>

\* lines 173-176
Commit ==
    /\ pc = "commit"
    /\ commits' = Append(commits,
                         [message |-> message(entries[Len(entries)]),
                          author_date |-> strftime(entries[Len(entries)].time),
                          content |-> index])
    /\ pc' = "resume"
    /\ UNCHANGED <<tree, nodes, times, seen, last_t, last_id, k, final,
                   entries, file, index>>

\* the sink raises (write_text, index.add or index.commit)
SinkFail ==
    /\ pc \in {"write", "stage", "commit"}
    /\ pc' = "failed"
    /\ UNCHANGED <<tree, nodes, times, seen, last_t, last_id, k, final,
                   entries, file, index, commits>>

\* the for loop of line 169 asks for the next entry: line 154, then line 150
Resume ==
    /\ pc = "resume"
    /\ ~final
    /\ last_t' = times[k][1]
    /\ last_id' = times[k][2]
    /\ k' = k + 1
    /\ pc' = "scan"
    /\ UNCHANGED <<tree, nodes, times, seen, final, entries, file, index, commits>>

\* the generator returns after line 155
Finish ==
    /\ pc = "resume"
    /\ final
    /\ pc' = "done"
    /\ UNCHANGED <<tree, nodes, times, seen, last_t, last_id, k, final,
                   entries, file, index, commits>>

Next ==
    \/ Parse
    \/ BeginEmptyError
    \/ BeginEmptyStop
    \/ Begin
    \/ ScanSame
    \/ ScanYield
    \/ FinalYield
    \/ Write
    \/ Stage
    \/ Commit
    \/ SinkFail
    \/ Resume
    \/ Finish

Spec == Init /\ [][Next]_vars

\* -------------------------------------------------------------- properties
\* the runs of the sorted event list: maximal sequences of consecutive
\* events of the same node
IsRunStart(i) == i = 1 \/ times[i][2] # times[i - 1][2]

IsRunEnd(i) == i = Len(times) \/ times[i][2] # times[i + 1][2]

NumRuns == Cardinality({i \in 1..Len(times) : IsRunStart(i)})

StartOfRun(r) ==
    CHOOSE i \in 1..Len(times) :
        IsRunStart(i) /\ Cardinality({j \in 1..i : IsRunStart(j)}) = r

EndOfRun(r) ==
    CHOOSE i \in 1..Len(times) :
        IsRunEnd(i) /\ Cardinality({j \in 1..i : IsRunEnd(j)}) = r

NodeIds == 1..Len(nodes)

\* the document committed for entry i, rendered when the entry was pulled
Doc(i) == commits[i].content

HasHeader(doc, n) == \E p \in 1..Len(doc) : doc[p] = nodes[n].header

HasBody(doc, n) == \E p \in 1..Len(doc) : doc[p] = nodes[n].text

\* the header of n, directly followed by its body when it has one
HasHeaderThenBody(doc, n) ==
    \E p \in 1..Len(doc) :
        /\ doc[p] = nodes[n].header
        /\ IF nodes[n].text # NoText
           THEN p < Len(doc) /\ doc[p + 1] = nodes[n].text
           ELSE ~HasBody(doc, n)

\* pre-order of the element tree: p is a proper prefix of q, or p is smaller
\* at the first position where the two paths differ
PathLess(p, q) ==
    \E j \in 1..Len(q) :
        /\ \A l \in 1..(j - 1) : l <= Len(p) /\ p[l] = q[l]
        /\ (j > Len(p) \/ p[j] < q[j])

NodeIndex(line) == CHOOSE n \in NodeIds : nodes[n].header = line

\* C1: the entries are yielded, and the commits are made, in timeline order:
\* the time of each entry is <= the time of the next one.
C1_TimelineOrder ==
    /\ \A i \in 1..(Len(entries) - 1) : entries[i].time <= entries[i + 1].time
    /\ \A i \in 1..(Len(commits) - 1) :
           commits[i].author_date[1] <= commits[i + 1].author_date[1]

C1_Witness ==
    /\ pc = "done"
    /\ Len(nodes) = 2
    /\ nodes[2].created < nodes[1].created
    /\ Len(commits) >= 2
    /\ entries[1].time < entries[Len(entries)].time

\* C2: once the body of a node with non-empty text is in the document of an
\* entry, it is in the document of every later entry.
C2_BodyMonotonic ==
    \A n \in NodeIds : nodes[n].text # NoText =>
        \A i \in 1..Len(commits) : \A j \in 1..Len(commits) :
            (i < j /\ HasBody(Doc(i), n)) => HasBody(Doc(j), n)

\* C3: the seen-count of every node is non-decreasing from one emitted triple
\* to the next, and a header that is in the document of an entry is in the
\* document of every later entry.
C3_HeaderMonotonic ==
    /\ \A i \in 1..(Len(entries) - 1) : \A n \in NodeIds :
           CounterGet(entries[i].counts, n) <= CounterGet(entries[i + 1].counts, n)
    /\ \A n \in NodeIds : \A i \in 1..Len(commits) : \A j \in 1..Len(commits) :
           (i < j /\ HasHeader(Doc(i), n)) => HasHeader(Doc(j), n)

C3_Witness ==
    /\ pc = "done"
    /\ Len(commits) >= 3
    /\ \E n \in NodeIds : HasHeader(Doc(1), n) /\ entries[2].node_id # n

\* C4: a node with created = modified triggers exactly one entry; the entry
\* has description "" and its document has the node's header followed by its
\* body when the text is non-empty, only the header when it is empty.
C4_CollapseCorrect ==
    pc = "done" =>
        \A n \in NodeIds : nodes[n].created = nodes[n].modified =>
            /\ Cardinality({i \in 1..Len(entries) : entries[i].node_id = n}) = 1
            /\ \A i \in 1..Len(entries) : entries[i].node_id = n =>
                   /\ entries[i].description = ""
                   /\ HasHeaderThenBody(Doc(i), n)

\* C5: in every rendered document the headers are in strictly ascending
\* flattened index, which is the pre-order of the element tree, and a body
\* line directly follows the header of its own node.
C5_DocumentOrder ==
    \A i \in 1..Len(commits) :
        /\ \A p \in 1..Len(Doc(i)) : Doc(i)[p].kind \in {"header", "text"}
        /\ \A p \in 1..Len(Doc(i)) : \A q \in 1..Len(Doc(i)) :
               (p < q /\ Doc(i)[p].kind = "header" /\ Doc(i)[q].kind = "header") =>
                   /\ NodeIndex(Doc(i)[p]) < NodeIndex(Doc(i)[q])
                   /\ PathLess(Doc(i)[p].name, Doc(i)[q].name)
        /\ \A q \in 1..Len(Doc(i)) : Doc(i)[q].kind = "text" =>
               /\ q > 1
               /\ Doc(i)[q - 1].kind = "header"
               /\ Doc(i)[q - 1].name = Doc(i)[q].name

C5_Witness ==
    /\ Len(nodes) = 2
    /\ nodes[2].header.level = 2
    /\ Len(entries) >= 1
    /\ entries[1].node_id = 2
    /\ \E i \in 1..Len(commits) :
           /\ HasHeader(Doc(i), 1)
           /\ HasHeader(Doc(i), 2)
           /\ HasBody(Doc(i), 2)

\* C6: the seen-count of every node is 0, 1 or 2 at every point of the scan
\* and in every emitted triple, and it is 2 once both events of the node have
\* been processed.
C6_CountRange ==
    /\ \A n \in NodeIds : CounterGet(seen, n) \in 0..2
    /\ \A i \in 1..Len(entries) : \A n \in NodeIds :
           CounterGet(entries[i].counts, n) \in 0..2
    /\ pc = "done" => \A n \in NodeIds : CounterGet(seen, n) = 2

\* C7: a header is in the document of an entry only if one of the node's two
\* timestamps is <= the entry's time.
C7_NoHeaderBeforeEvent ==
    \A i \in 1..Len(commits) : \A n \in NodeIds :
        HasHeader(Doc(i), n) =>
            \/ nodes[n].created <= entries[i].time
            \/ nodes[n].modified <= entries[i].time

\* C8: a body is in the document of an entry only if both timestamps of the
\* node are <= the entry's time, and an entry has description "" only if both
\* timestamps of its node are <= its time.
C8_NoBodyBeforeBoth ==
    /\ \A i \in 1..Len(commits) : \A n \in NodeIds :
           HasBody(Doc(i), n) =>
               /\ nodes[n].created <= entries[i].time
               /\ nodes[n].modified <= entries[i].time
    /\ \A i \in 1..Len(entries) :
           entries[i].description = "" =>
               /\ entries[i].node.created <= entries[i].time
               /\ entries[i].node.modified <= entries[i].time

EntriesOf(n) == SelectSeq(entries, LAMBDA e : e.node_id = n)

\* C11: a node modified strictly later than it was created triggers two
\* entries: "section: " at its creation time with its header and not its
\* body, then "" at its modification time with its body, also when no event
\* of another node falls between the two.
C11_TwoEntriesWhenModifiedLater ==
    pc = "done" =>
        \A n \in NodeIds : nodes[n].created < nodes[n].modified =>
            /\ Len(EntriesOf(n)) = 2
            /\ \A i \in 1..Len(entries) : \A j \in 1..Len(entries) :
                   (i < j /\ entries[i].node_id = n /\ entries[j].node_id = n) =>
                       /\ entries[i].time = nodes[n].created
                       /\ entries[i].description = "section: "
                       /\ HasHeader(Doc(i), n)
                       /\ ~HasBody(Doc(i), n)
                       /\ entries[j].time = nodes[n].modified
                       /\ entries[j].description = ""
                       /\ HasHeaderThenBody(Doc(j), n)

RECURSIVE CountElements(_)
CountElements(kids) ==
    IF kids = <<>> THEN 0
    ELSE 1 + CountElements(Head(kids).kids) + CountElements(Tail(kids))

RECURSIVE ElementAt(_, _)
ElementAt(kids, path) ==
    IF Len(path) = 1 THEN kids[path[1]]
    ELSE ElementAt(kids[path[1]].kids, Tail(path))

RECURSIVE Inherited(_, _)
\* the timestamp the element at path resolves to when an absent or zero
\* attribute falls back to the parent's resolved one, and to Now at the top
Inherited(path, attr) ==
    IF path = <<>> THEN Now
    ELSE IF ElementAt(tree, path)[attr] > 0 THEN ElementAt(tree, path)[attr]
    ELSE Inherited(SubSeq(path, 1, Len(path) - 1), attr)

\* C12: flattening never fails: every element is flattened, and a timestamp
\* attribute that is absent or zero resolves to the parent's resolved
\* timestamp (Now at the top level).
C12_FlattenNeverFails ==
    pc # "start" =>
        /\ Len(nodes) = CountElements(tree)
        /\ \A n \in NodeIds :
               /\ nodes[n].created = Inherited(nodes[n].name, "ts_creation")
               /\ nodes[n].modified = Inherited(nodes[n].name, "ts_lastsave")

\* C13: the document of an entry does not depend on when it is materialized:
\* rendered in any later state it has the lines it had when it was committed.
C13_RenderingIndependentOfTime ==
    \A i \in 1..Len(commits) : entry_text(nodes, seen) = Doc(i)

\* the document of entry i as rendered from the counts it was yielded with
DocAtYield(i) == document(nodes, entries[i].counts)

C14_State ==
    /\ Len(commits) <= Len(entries)
    /\ \A i \in 1..Len(commits) :
           /\ commits[i].message = <<entries[i].description, entries[i].node.name>>
           /\ commits[i].author_date = strftime(entries[i].time)
           /\ commits[i].content = DocAtYield(i)
    /\ pc \in {"start", "begin", "scan", "resume", "done", "error"} =>
           Len(commits) = Len(entries)
    /\ pc \in {"write", "stage", "commit", "failed"} =>
           Len(entries) = Len(commits) + 1
    /\ pc \in {"stage", "commit"} => file = DocAtYield(Len(entries))
    /\ pc = "commit" => index = file
    /\ pc = "done" => Len(commits) = Len(entries)

C14_Step ==
    /\ entries' # entries =>
           /\ Len(commits) = Len(entries)
           /\ commits' = commits
           /\ SubSeq(entries', 1, Len(entries)) = entries
    /\ commits' # commits =>
           /\ pc = "commit"
           /\ Len(commits') = Len(commits) + 1
           /\ SubSeq(commits', 1, Len(commits)) = commits
    /\ pc = "failed" => UNCHANGED vars

\* C14: the entries are handled one at a time and in order: the full
\* document is written, then staged, then committed with message
\* description + node.name and the entry's time, before the next entry is
\* pulled; there are as many commits as entries, and after a sink failure at
\* entry k the commits of the entries before k stay and no other is made.
C14_OneEntryAtATime == []C14_State /\ [][C14_Step]_vars

C14_Witness ==
    /\ pc = "failed"
    /\ Len(commits) >= 1
    /\ Len(entries) = Len(commits) + 1

RECURSIVE StableInsert(_, _)
\* x goes behind every element whose timestamp is <= its own
StableInsert(x, s) ==
    IF s = <<>> THEN <<x>>
    ELSE IF s[1][1] <= x[1] THEN <<s[1]>> \o StableInsert(x, Tail(s))
    ELSE <<x>> \o s

RECURSIVE StableSortByTime(_, _)
StableSortByTime(s, acc) ==
    IF s = <<>> THEN acc ELSE StableSortByTime(Tail(s), StableInsert(Head(s), acc))

\* C15: the event list is the stable sort by timestamp alone of the arrival
\* order list: events of distinct nodes with the same timestamp are in
\* flattening order, and the two events of a node with created = modified are
\* adjacent.
C15_StableSortByTime ==
    /\ times = StableSortByTime(events(nodes, 1), <<>>)
    /\ \A i \in 1..Len(times) : \A j \in 1..Len(times) :
           (i < j /\ times[i][1] = times[j][1]) => times[i][2] <= times[j][2]
    /\ \A n \in NodeIds : nodes[n].created = nodes[n].modified =>
           \E i \in 1..(Len(times) - 1) : times[i][2] = n /\ times[i + 1][2] = n

C15_Witness ==
    /\ pc = "begin"
    /\ Len(nodes) = 2
    /\ nodes[1].created = nodes[1].modified
    /\ nodes[2].created = nodes[2].modified
    /\ nodes[1].created = nodes[2].created
    /\ times # <<>>

\* C16: every key of the seen map is the index of a flattened node and has
\* count >= 1, in the live map and in every yielded one, so neither the
\* assertion of document nor a nodes_by_index lookup fails.
C16_NoInternalViolation ==
    /\ \A key \in DOMAIN seen : key \in NodeIds /\ seen[key] >= 1
    /\ \A i \in 1..Len(entries) : \A key \in DOMAIN entries[i].counts :
           key \in NodeIds /\ entries[i].counts[key] >= 1
    /\ ~document_raises(seen)
    /\ pc = "error" => entries = <<>>

C16_Witness ==
    /\ pc = "stage"
    /\ Cardinality(DOMAIN seen) = 2
    /\ Len(file) >= 2

\* C17: the document of the last entry of a finished run of a non-empty tree
\* has the header of every node and the body of every node with text.
C17_EndsWithCompleteDocument ==
    (pc = "done" /\ nodes # <<>>) =>
        /\ Len(commits) >= 1
        /\ \A n \in NodeIds :
               /\ HasHeader(Doc(Len(commits)), n)
               /\ nodes[n].text # NoText => HasBody(Doc(Len(commits)), n)

\* C18: for a tree without nodes the run finishes normally with no entry and
\* no commit, and no error is raised.
C18_EmptyTreeFinishes ==
    tree = <<>> =>
        /\ pc # "error"
        /\ entries = <<>>
        /\ commits = <<>>

\* C19: every node triggers at most two entries, and at least one in a
\* finished run of a non-empty tree, so there are between 1 and 2N entries
\* and every node's name is in a commit message.
C19_OneOrTwoEntriesPerNode ==
    /\ \A n \in NodeIds : Len(EntriesOf(n)) <= 2
    /\ Len(entries) <= 2 * Len(nodes)
    /\ (pc = "done" /\ nodes # <<>>) =>
           /\ Len(entries) >= 1
           /\ \A n \in NodeIds :
                  /\ Len(EntriesOf(n)) >= 1
                  /\ \E i \in 1..Len(commits) : commits[i].message[2] = nodes[n].name

C19_Witness ==
    /\ pc = "done"
    /\ \E n \in NodeIds : \E m \in NodeIds :
           Len(EntriesOf(n)) = 2 /\ Len(EntriesOf(m)) = 1

====
